---- MODULE Spec2Model ----
(***************************************************************************)
(* Model of wasm-node/javascript/demo/demo.mjs: a WebSocket server that    *)
(* bridges JSON-RPC text frames to chains of a smoldot client.             *)
(*                                                                         *)
(* The Node.js event loop is modelled as it runs: an event handler         *)
(* (a macrotask) runs only when the microtask queue is empty, and promise  *)
(* reactions are microtasks run in FIFO order before the next event.       *)
(***************************************************************************)
EXTENDS Integers, Sequences, FiniteSets, TLC

\* ---------------------------------------------------------------- bounds
MaxConns == 2       \* WebSocket connections accepted during a run
MaxMsgs == 2        \* frames received, over all connections
MaxResponses == 1   \* JSON-RPC responses the engine produces, over all handles
MaxSigints == 1     \* SIGINT deliveries
MaxRelayed == 2     \* responses the engine produces in SpecRelay
MaxSignals == 2     \* SIGINT deliveries in SpecProcess

\* ------------------------------------------------------- program constants
InternalError == 1011   \* connection.close(1011)
ProtocolError == 1002   \* connection.close(1002)
NoCode == 0             \* connection.close() without a code

Conns == 1..MaxConns
NoHandle == 0

\* A chain handle is named by the addChain call that returned it: the i-th
\* call made for connection c, or for the default chain (c = 0).
HandleId(c, i) == 2 * c + i
HandleIds == 1..HandleId(MaxConns, 2)
Undefined == "undefined"

\* ------------------------------------------------------------ the registry
\* chainSpecsById after the loading loop: own properties, one per file.
\* The files are input; this registry holds a relay chain, a parachain of it
\* and a parachain whose relay_chain names no loaded file.
chainSpecsById ==
    [ westend  |-> [chainSpec |-> "spec:westend",  relayChain |-> Undefined],
      westmint |-> [chainSpec |-> "spec:westmint", relayChain |-> "westend"],
      orphan   |-> [chainSpec |-> "spec:orphan",   relayChain |-> "missing"] ]

firstChainSpecId == "westend"

\* Property names every JavaScript object literal inherits from
\* Object.prototype: `{}["constructor"]` is a function, a truthy value that
\* has neither a chainSpec nor a relayChain property.
ObjectPrototypeKeys == {"constructor"}

\* chainSpecsById[key], as the property read evaluates it: an own property,
\* else a property inherited from Object.prototype, else undefined.
Lookup(key) ==
    IF key \in DOMAIN chainSpecsById
    THEN [truthy |-> TRUE, chainSpec |-> chainSpecsById[key].chainSpec,
          relayChain |-> chainSpecsById[key].relayChain]
    ELSE IF key \in ObjectPrototypeKeys
    THEN [truthy |-> TRUE, chainSpec |-> Undefined, relayChain |-> Undefined]
    ELSE [truthy |-> FALSE, chainSpec |-> Undefined, relayChain |-> Undefined]

\* request.url of the connections the model opens: a path, a sequence of
\* characters of which the first is the separator.
Urls == { <<"/", "westend">>, <<"/", "westmint">>, <<"/", "orphan">>,
          <<"/", "nope">>, <<"/", "constructor">> }

\* request.url.substring(1), read as the property key.
Substring1(url) == IF Len(url) = 2 THEN url[2] ELSE ""

\* ------------------------------------------------------------ UTF-8 frames
\* A text frame's payload is a Buffer of bytes; the `ws` receiver has
\* validated it as UTF-8.  These are "a" and "e-acute".
Payloads == { <<97>>, <<195, 169>> }

RECURSIVE Utf8Decode(_)
\* data.toString('utf8'): bytes to code points.
Utf8Decode(bytes) ==
    IF bytes = <<>> THEN <<>>
    ELSE IF bytes[1] < 128 THEN <<bytes[1]>> \o Utf8Decode(Tail(bytes))
    ELSE IF bytes[1] >= 192 /\ bytes[1] < 224 /\ Len(bytes) >= 2
    THEN <<(bytes[1] - 192) * 64 + (bytes[2] - 128)>> \o Utf8Decode(Tail(Tail(bytes)))
    ELSE <<65533>> \o Utf8Decode(Tail(bytes))

RECURSIVE Utf8Encode(_)
\* The bytes a string stands for when the engine reads it.
Utf8Encode(str) ==
    IF str = <<>> THEN <<>>
    ELSE IF str[1] < 128 THEN <<str[1]>> \o Utf8Encode(Tail(str))
    ELSE <<192 + (str[1] \div 64), 128 + (str[1] % 64)>> \o Utf8Encode(Tail(str))

\* ------------------------------------------------------------------- state
VARIABLES
    conn,        \* per WebSocket connection: socket, `chain` promise, call logs
    handles,     \* the engine's chain handles, in creation order
    microtasks,  \* the promise-reaction queue
    proc,        \* the process: exit, defaultChain promise, SIGINT pipeline
    budget       \* how many frames and responses the environment has produced

vars == <<conn, handles, microtasks, proc, budget>>

\* A connection that has not been accepted yet.
NoConn ==
    [ url |-> <<>>, readyState |-> "NONE", closeCode |-> NoCode,
      closeCalls |-> <<>>, listening |-> FALSE,
      chain |-> "none", relay |-> NoHandle, para |-> NoHandle,
      pc |-> "none", failure |-> "none", reactions |-> <<>>,
      received |-> <<>>, frames |-> <<>>,
      addCalls |-> <<>>, sendCalls |-> <<>>, nextCalls |-> <<>>,
      removeCalls |-> <<>>, loop |-> "none" ]

\* A handle the engine has not returned yet.
NoChain ==
    [ created |-> FALSE, owner |-> 0, chainSpec |-> Undefined,
      disableJsonRpc |-> FALSE, potentialRelayChains |-> <<>>,
      removed |-> FALSE, removes |-> 0, pendingNext |-> FALSE, produced |-> 0,
      usedAfterRemove |-> FALSE ]

\* A microtask: a promise reaction waiting to run.
Task(k, c, h, m) == [k |-> k, c |-> c, h |-> h, m |-> m]

\* The state once the top-level script has run: the default chain's addChain
\* is pending, the SIGINT handler is registered and the server listens.
Init ==
    /\ conn = [c \in Conns |-> NoConn]
    /\ handles = [h \in HandleIds |-> NoChain]
    /\ microtasks = <<>>
    /\ proc = [ exited |-> "no", exitCause |-> "none", exitConn |-> 0,
                defaultChain |-> "pending", defaultHandle |-> NoHandle,
                defaultAdds |-> 1, sigints |-> 0, sigReactions |-> 0,
                sigRemoves |-> 0, terminate |-> "no", terminateCalls |-> 0,
                terminating |-> 0 ]
    /\ budget = [msgs |-> 0, responses |-> 0]

\* ------------------------------------------------- the state as one value
\* Handlers are sequences of statements; each statement is an operator from
\* the state before it to the state after it.
World ==
    [conn |-> conn, handles |-> handles, microtasks |-> microtasks,
     proc |-> proc, budget |-> budget]

Becomes(w) ==
    /\ conn' = w.conn
    /\ handles' = w.handles
    /\ microtasks' = w.microtasks
    /\ proc' = w.proc
    /\ budget' = w.budget

Enqueue(w, t) == [w EXCEPT !.microtasks = Append(@, t)]

\* No handler is running and the process is alive: the next event is taken.
Idle == proc.exited = "no" /\ microtasks = <<>>

\* The microtask at the head of the queue is of kind k.
Running(k) ==
    proc.exited = "no" /\ microtasks # <<>> /\ Head(microtasks).k = k

\* The state in which the head microtask has been taken off the queue.
Popped == [World EXCEPT !.microtasks = Tail(@)]

\* JavaScript truthiness of a relay_chain value.
Truthy(v) == v # Undefined /\ v # ""

\* ------------------------------------------ the `ws` WebSocket (collaborator)
\* connection.close(code): the first call on an open socket starts the
\* closing handshake with that code; later calls change nothing.
WsClose(w, c, code) ==
    [w EXCEPT !.conn[c].closeCalls = Append(@, code),
              !.conn[c].readyState = IF @ = "OPEN" THEN "CLOSING" ELSE @,
              !.conn[c].closeCode =
                  IF w.conn[c].readyState = "OPEN" THEN code ELSE @]

\* connection.send(response) on an open socket.
WsSend(w, c, h, m) ==
    [w EXCEPT !.conn[c].frames = Append(@, [h |-> h, m |-> m])]

\* process.exit(code): nothing runs afterwards.
ProcessExit(w, code, cause, c) ==
    [w EXCEPT !.proc.exited = code, !.proc.exitCause = cause,
              !.proc.exitConn = c, !.microtasks = <<>>]

\* --------------------------------------- the smoldot client (collaborator)
\* client.addChain(options), called for connection c: the call is logged and
\* its promise is pending until the engine settles it.
ClientAddChain(w, c, spec, disableJsonRpc, relays) ==
    [w EXCEPT !.conn[c].addCalls =
        Append(@, [chainSpec |-> spec, disableJsonRpc |-> disableJsonRpc,
                   potentialRelayChains |-> relays, result |-> 0])]

NewHandle(owner, spec, disableJsonRpc, relays) ==
    [ created |-> TRUE, owner |-> owner, chainSpec |-> spec,
      disableJsonRpc |-> disableJsonRpc, potentialRelayChains |-> relays,
      removed |-> FALSE, removes |-> 0, pendingNext |-> FALSE, produced |-> 0,
      usedAfterRemove |-> FALSE ]

\* A call on handle h fails: the handle was removed, or the client terminated.
Destroyed(w, h) == w.handles[h].removed \/ w.proc.terminate # "no"

\* chain.sendJsonRpc(message) throws.
SendThrows(w, h) == Destroyed(w, h) \/ w.handles[h].disableJsonRpc

\* chain.sendJsonRpc(message), called by connection c's handler.
SendJsonRpc(w, c, h, message) ==
    LET logged == [w EXCEPT !.conn[c].sendCalls =
                               Append(@, [h |-> h, message |-> message])]
    IN IF SendThrows(w, h)
       THEN [logged EXCEPT !.handles[h].usedAfterRemove =
                               @ \/ w.handles[h].removed]
       ELSE logged

\* chain.nextJsonRpcResponse(), called by connection c's relay loop: the
\* promise is pending, or rejected at once on a handle that cannot answer.
NextJsonRpcResponse(w, c, h) ==
    LET logged == [w EXCEPT !.conn[c].nextCalls = Append(@, h)]
    IN IF SendThrows(w, h)
       THEN Enqueue([logged EXCEPT !.handles[h].usedAfterRemove =
                                       @ \/ w.handles[h].removed],
                    Task("loopError", c, h, <<>>))
       ELSE [logged EXCEPT !.handles[h].pendingNext = TRUE]

\* chain.remove(): the handle is released and a pending nextJsonRpcResponse
\* is rejected.  Releasing a released handle changes nothing more.
EngineRemove(w, h) ==
    LET gone == [w EXCEPT !.handles[h].removes = @ + 1,
                          !.handles[h].removed = TRUE,
                          !.handles[h].pendingNext = FALSE]
    IN IF w.handles[h].pendingNext
       THEN Enqueue(gone, Task("loopError", w.handles[h].owner, h, <<>>))
       ELSE gone

\* ChainThen with the reactions of a pending promise run newest first.
ChainThenNewestFirst(w, c, t) ==
    IF w.conn[c].chain = "pending"
    THEN [w EXCEPT !.conn[c].reactions = <<t>> \o @]
    ELSE Enqueue(w, t)

\* ------------------------------------------------------ the `chain` promise
\* chain.then(reaction): queued at once on a settled promise, kept in
\* registration order on a pending one.
ChainThen(w, c, t) ==
    IF w.conn[c].chain = "pending"
    THEN [w EXCEPT !.conn[c].reactions = Append(@, t)]
    ELSE Enqueue(w, t)

\* `chain` is fulfilled with value: its reactions are queued in order.
SettleChain(w, c, value) ==
    [w EXCEPT !.conn[c].chain = value,
              !.conn[c].reactions = <<>>,
              !.microtasks = @ \o w.conn[c].reactions]

\* ================================================================ events
\* wsServer.on('connection'): connection c is accepted with request.url = url.
\* The async function runs up to its first await inside the handler.
ConnectionHandler(w, c, url) ==
    LET chainCfg == Lookup(Substring1(url))
        open == [w EXCEPT !.conn[c].url = url, !.conn[c].readyState = "OPEN"]
        started == [open EXCEPT !.conn[c].chain = "pending",
                                !.conn[c].listening = TRUE]
    IN IF ~chainCfg.truthy
       THEN WsClose(open, c, NoCode)
       ELSE IF Truthy(chainCfg.relayChain)
       THEN IF ~Lookup(chainCfg.relayChain).truthy
            THEN Enqueue([started EXCEPT !.conn[c].pc = "done",
                                         !.conn[c].failure = "config"],
                         Task("chainCatch", c, NoHandle, <<>>))
            ELSE ClientAddChain([started EXCEPT !.conn[c].pc = "awaitRelay"], c,
                                Lookup(chainCfg.relayChain).chainSpec, TRUE, <<>>)
       ELSE ClientAddChain([started EXCEPT !.conn[c].pc = "awaitOnly"], c,
                           chainCfg.chainSpec, FALSE, <<>>)

Connection(c, url) ==
    /\ Idle
    /\ conn[c].readyState = "NONE"
    /\ \A d \in Conns : d < c => conn[d].readyState # "NONE"
    /\ Becomes(ConnectionHandler(World, c, url))

\* The engine settles the addChain that connection c awaits: with a new
\* handle, or with a rejection.
EngineAddChain(c, ok) ==
    /\ Idle
    /\ conn[c].pc \in {"awaitRelay", "awaitPara", "awaitOnly"}
    /\ ok => proc.terminate = "no"
    /\ LET n == Len(conn[c].addCalls)
           call == conn[c].addCalls[n]
           h == HandleId(c, n)
       IN IF ok
          THEN Becomes(Enqueue(
                 [World EXCEPT !.handles[h] =
                                   NewHandle(c, call.chainSpec, call.disableJsonRpc,
                                             call.potentialRelayChains),
                               !.conn[c].addCalls[n].result = h],
                 Task("asyncResume", c, h, <<>>)))
          ELSE Becomes(Enqueue(
                 [World EXCEPT !.conn[c].addCalls[n].result = -1],
                 Task("asyncResume", c, NoHandle, <<>>)))

\* AsyncFunction with the parachain branch returning { relay } right after
\* the relay chain was added.
AsyncFunctionForgetsPara(w, c, h) ==
    IF h = NoHandle
    THEN Enqueue([w EXCEPT !.conn[c].pc = "done", !.conn[c].failure = "addChain"],
                 Task("chainCatch", c, NoHandle, <<>>))
    ELSE Enqueue(NextJsonRpcResponse(
                     [w EXCEPT !.conn[c].relay = h, !.conn[c].pc = "done",
                               !.conn[c].loop = "running"], c, h),
                 Task("chainCatch", c, h, <<>>))

\* AsyncFunction with the parachain added without potentialRelayChains.
AsyncFunctionNoRelayLink(w, c, h) ==
    LET cfg == Lookup(Substring1(w.conn[c].url))
    IN IF h = NoHandle
       THEN Enqueue([w EXCEPT !.conn[c].pc = "done", !.conn[c].failure = "addChain"],
                    Task("chainCatch", c, NoHandle, <<>>))
       ELSE IF w.conn[c].pc = "awaitRelay"
       THEN ClientAddChain([w EXCEPT !.conn[c].relay = h,
                                     !.conn[c].pc = "awaitPara"], c,
                           cfg.chainSpec, FALSE, <<>>)
       ELSE IF w.conn[c].pc = "awaitPara"
       THEN Enqueue(NextJsonRpcResponse(
                        [w EXCEPT !.conn[c].para = h, !.conn[c].pc = "done",
                                  !.conn[c].loop = "running"], c, h),
                    Task("chainCatch", c, h, <<>>))
       ELSE Enqueue(NextJsonRpcResponse(
                        [w EXCEPT !.conn[c].relay = h, !.conn[c].pc = "done",
                                  !.conn[c].loop = "running"], c, h),
                    Task("chainCatch", c, h, <<>>))

\* The async function resumes after its await.
AsyncFunction(w, c, h) ==
    LET cfg == Lookup(Substring1(w.conn[c].url))
        failed == Enqueue([w EXCEPT !.conn[c].pc = "done",
                                    !.conn[c].failure = "addChain"],
                          Task("chainCatch", c, NoHandle, <<>>))
    IN IF h = NoHandle THEN failed
       ELSE IF w.conn[c].pc = "awaitRelay"
       THEN ClientAddChain([w EXCEPT !.conn[c].relay = h,
                                     !.conn[c].pc = "awaitPara"], c,
                           cfg.chainSpec, FALSE, <<h>>)
       ELSE IF w.conn[c].pc = "awaitPara"
       THEN Enqueue(NextJsonRpcResponse(
                        [w EXCEPT !.conn[c].para = h, !.conn[c].pc = "done",
                                  !.conn[c].loop = "running"], c, h),
                    Task("chainCatch", c, h, <<>>))
       ELSE Enqueue(NextJsonRpcResponse(
                        [w EXCEPT !.conn[c].relay = h, !.conn[c].pc = "done",
                                  !.conn[c].loop = "running"], c, h),
                    Task("chainCatch", c, h, <<>>))

AsyncResume ==
    /\ Running("asyncResume")
    /\ Becomes(AsyncFunction(Popped, Head(microtasks).c, Head(microtasks).h))

\* The .catch reaction of the async function's promise; its result is `chain`.
ChainCatchHandler(w, c, h) ==
    IF h = NoHandle
    THEN SettleChain(WsClose(w, c, InternalError), c, "undefined")
    ELSE SettleChain(w, c, "session")

ChainCatch ==
    /\ Running("chainCatch")
    /\ Becomes(ChainCatchHandler(Popped, Head(microtasks).c, Head(microtasks).h))

\* MessageHandler without the isBinary test: every frame is forwarded.
MessageHandlerForwardsBinary(w, c, data, isBinary) ==
    ChainThen([w EXCEPT !.conn[c].received =
                          Append(@, [data |-> IF isBinary THEN <<>> ELSE data,
                                     isBinary |-> isBinary,
                                     during |-> IF isBinary THEN "binary"
                                                ELSE w.conn[c].chain])],
              c, Task("messageThen", c, NoHandle, Utf8Decode(data)))

\* MessageHandler dropping a text frame that arrives while `chain` is pending.
MessageHandlerDropsWhileResolving(w, c, data, isBinary) ==
    LET got == [w EXCEPT !.conn[c].received =
                           Append(@, [data |-> IF isBinary THEN <<>> ELSE data,
                                      isBinary |-> isBinary,
                                      during |-> IF isBinary THEN "binary"
                                                 ELSE w.conn[c].chain])]
    IN IF isBinary THEN WsClose(got, c, ProtocolError)
       ELSE IF w.conn[c].chain = "pending" THEN got
       ELSE ChainThen(got, c, Task("messageThen", c, NoHandle, Utf8Decode(data)))

\* connection.on('message').  The binary branch never reads `data`, so the
\* log of received frames keeps the payload of text frames only, and with
\* each text frame what `chain` was when the frame arrived.
MessageHandler(w, c, data, isBinary) ==
    LET got == [w EXCEPT !.conn[c].received =
                           Append(@, [data |-> IF isBinary THEN <<>> ELSE data,
                                      isBinary |-> isBinary,
                                      during |-> IF isBinary THEN "binary"
                                                 ELSE w.conn[c].chain])]
    IN IF ~isBinary
       THEN ChainThen(got, c, Task("messageThen", c, NoHandle, Utf8Decode(data)))
       ELSE WsClose(got, c, ProtocolError)

Message(c, data, isBinary) ==
    /\ Idle
    /\ conn[c].listening
    /\ conn[c].readyState \in {"OPEN", "CLOSING"}
    /\ budget.msgs < MaxMsgs
    /\ Becomes(MessageHandler([World EXCEPT !.budget.msgs = @ + 1],
                              c, data, isBinary))

\* Target without the test of chain.para.
TargetAlwaysRelay(cn) == cn.relay

\* The handle a session's requests go to.
Target(cn) == IF cn.para # NoHandle THEN cn.para ELSE cn.relay

\* chain.then(chain => ...) of the message handler.
MessageThenHandler(w, c, message) ==
    IF w.conn[c].chain = "undefined"
    THEN Enqueue(w, Task("messageCatch", c, NoHandle, <<>>))
    ELSE LET h == Target(w.conn[c])
             sent == SendJsonRpc(w, c, h, message)
         IN IF SendThrows(w, h)
            THEN Enqueue(sent, Task("messageCatch", c, NoHandle, <<>>))
            ELSE sent

MessageThen ==
    /\ Running("messageThen")
    /\ Becomes(MessageThenHandler(Popped, Head(microtasks).c, Head(microtasks).m))

\* .catch of the message handler: process.exit(1).
MessageCatch ==
    /\ Running("messageCatch")
    /\ Becomes(ProcessExit(Popped, "exit1", "jsonRpcRequest", Head(microtasks).c))

\* The socket of connection c closes; `ws` emits 'close' once per socket.
\* connection.on('close').
CloseHandler(w, c) ==
    ChainThen(w, c, Task("closeThen", c, NoHandle, <<>>))

Close(c) ==
    /\ Idle
    /\ conn[c].readyState \in {"OPEN", "CLOSING"}
    /\ LET closed == [World EXCEPT !.conn[c].readyState = "CLOSED"]
       IN IF conn[c].listening
          THEN Becomes(CloseHandler(closed, c))
          ELSE Becomes(closed)

\* h.remove(), called by connection c's close handler.
Remove(w, c, h) ==
    EngineRemove([w EXCEPT !.conn[c].removeCalls = Append(@, h)], h)

\* CloseThenHandler reading a `chain` shared by all connections: the session
\* of the connection accepted last.
CloseThenHandlerShared(w, c) ==
    LET sessions == {d \in Conns : w.conn[d].chain = "session"}
        last == CHOOSE d \in sessions : \A e \in sessions : e <= d
        cn == w.conn[last]
    IN IF sessions = {} THEN w
       ELSE IF cn.para # NoHandle
       THEN Remove(Remove(w, c, cn.relay), c, cn.para)
       ELSE Remove(w, c, cn.relay)

\* CloseThenHandler removing chain.relay where it should remove chain.para.
CloseThenHandlerRelayTwice(w, c) ==
    LET cn == w.conn[c]
    IN IF cn.chain = "undefined" THEN w
       ELSE IF cn.para # NoHandle
       THEN Remove(Remove(w, c, cn.relay), c, cn.relay)
       ELSE Remove(w, c, cn.relay)

\* CloseThenHandler with the two removes exchanged.
CloseThenHandlerParaFirst(w, c) ==
    LET cn == w.conn[c]
    IN IF cn.chain = "undefined" THEN w
       ELSE IF cn.para # NoHandle
       THEN Remove(Remove(w, c, cn.para), c, cn.relay)
       ELSE Remove(w, c, cn.relay)

\* CloseThenHandler without the removal of chain.para.
CloseThenHandlerForgetsPara(w, c) ==
    LET cn == w.conn[c]
    IN IF cn.chain = "undefined" THEN w
       ELSE Remove(w, c, cn.relay)

\* chain.then(chain => ...) of the close handler.  On an undefined `chain`
\* the read of chain.relay throws, and .catch(() => { }) swallows it.
CloseThenHandler(w, c) ==
    LET cn == w.conn[c]
    IN IF cn.chain = "undefined" THEN w
       ELSE IF cn.para # NoHandle
       THEN Remove(Remove(w, c, cn.relay), c, cn.para)
       ELSE Remove(w, c, cn.relay)

CloseThen ==
    /\ Running("closeThen")
    /\ Becomes(CloseThenHandler(Popped, Head(microtasks).c))

\* The engine produces a response on handle h, whose nextJsonRpcResponse is
\* pending.
EngineResponse(h) ==
    /\ Idle
    /\ handles[h].pendingNext
    /\ budget.responses < MaxResponses
    /\ Becomes(Enqueue(
         [World EXCEPT !.handles[h].pendingNext = FALSE,
                       !.handles[h].produced = @ + 1,
                       !.budget.responses = @ + 1],
         Task("loopResume", handles[h].owner, h, <<handles[h].produced + 1>>)))

\* LoopBody without connection.send: the response is read and not forwarded.
LoopBodySkipsSend(w, c, h, response, sendThrows) ==
    NextJsonRpcResponse(w, c, h)

\* The relay loop after its await returned response: send it, ask again.
\* On a socket that is no longer open, send drops the frame or throws,
\* depending on the version of `ws`.
LoopBody(w, c, h, response, sendThrows) ==
    IF w.conn[c].readyState = "OPEN"
    THEN NextJsonRpcResponse(WsSend(w, c, h, response), c, h)
    ELSE IF sendThrows
    THEN [w EXCEPT !.conn[c].loop = "exited"]
    ELSE NextJsonRpcResponse(w, c, h)

LoopResume ==
    /\ Running("loopResume")
    /\ \E sendThrows \in BOOLEAN :
         Becomes(LoopBody(Popped, Head(microtasks).c, Head(microtasks).h,
                          Head(microtasks).m, sendThrows))

\* LoopCatch with the try inside the while loop: the loop asks again.
LoopCatchRetries(w, c) ==
    NextJsonRpcResponse(w, c, Target(w.conn[c]))

\* The relay loop's await threw: catch(_error) {} ends the loop.
LoopCatch(w, c) == [w EXCEPT !.conn[c].loop = "exited"]

LoopError ==
    /\ Running("loopError")
    /\ Becomes(LoopCatch(Popped, Head(microtasks).c))

\* ======================================================= process lifecycle
\* The engine settles the default chain's addChain.
EngineDefaultChain(ok) ==
    /\ Idle
    /\ proc.defaultChain = "pending"
    /\ proc.defaultHandle = NoHandle
    /\ ok => proc.terminate = "no"
    /\ IF ok
       THEN Becomes(Enqueue(
              [World EXCEPT !.handles[HandleId(0, 1)] =
                                NewHandle(0, chainSpecsById[firstChainSpecId].chainSpec,
                                          FALSE, <<>>),
                            !.proc.defaultHandle = HandleId(0, 1)],
              Task("defaultCatch", 0, HandleId(0, 1), <<>>)))
       ELSE Becomes(Enqueue([World EXCEPT !.proc.defaultHandle = -1],
                            Task("defaultCatch", 0, NoHandle, <<>>)))

\* DefaultCatchHandler without process.exit(1): the failure is only logged.
DefaultCatchHandlerKeepsRunning(w, h) ==
    IF h = NoHandle
    THEN w
    ELSE [w EXCEPT !.proc.defaultChain = "fulfilled",
                   !.proc.sigReactions = 0,
                   !.microtasks = @ \o [i \in 1..w.proc.sigReactions |->
                                          Task("sigintRemove", 0, h, <<>>)]]

\* The .catch reaction of the default chain's addChain; its result is
\* `defaultChain`, whose waiting SIGINT reactions are queued.
DefaultCatchHandler(w, h) ==
    IF h = NoHandle
    THEN ProcessExit(w, "exit1", "defaultChain", 0)
    ELSE [w EXCEPT !.proc.defaultChain = "fulfilled",
                   !.proc.sigReactions = 0,
                   !.microtasks = @ \o [i \in 1..w.proc.sigReactions |->
                                          Task("sigintRemove", 0, h, <<>>)]]

DefaultCatch ==
    /\ Running("defaultCatch")
    /\ Becomes(DefaultCatchHandler(Popped, Head(microtasks).h))

\* process.on("SIGINT"): defaultChain.then(...).
SigintHandler(w) ==
    LET counted == [w EXCEPT !.proc.sigints = @ + 1]
    IN IF w.proc.defaultChain = "pending"
       THEN [counted EXCEPT !.proc.sigReactions = @ + 1]
       ELSE Enqueue(counted, Task("sigintRemove", 0, w.proc.defaultHandle, <<>>))

Sigint ==
    /\ Idle
    /\ proc.sigints < MaxSigints
    /\ Becomes(SigintHandler(World))

\* SigintRemoveHandler without chain.remove(): the engine is terminated with
\* the default chain still added.
SigintRemoveHandlerSkipsRemove(w, h) ==
    Enqueue(w, Task("sigintTerminate", 0, h, <<>>))

\* .then((chain) => chain.remove())
SigintRemoveHandler(w, h) ==
    Enqueue(EngineRemove([w EXCEPT !.proc.sigRemoves = @ + 1], h),
            Task("sigintTerminate", 0, h, <<>>))

SigintRemove ==
    /\ Running("sigintRemove")
    /\ Becomes(SigintRemoveHandler(Popped, Head(microtasks).h))

\* client.terminate(): the engine starts to shut down, every chain with it.
ClientTerminate(w) ==
    [w EXCEPT !.proc.terminateCalls = @ + 1,
              !.proc.terminate = IF @ = "no" THEN "pending" ELSE @,
              !.proc.terminating = @ + 1]

\* .then(() => client.terminate())
SigintTerminateHandler(w) == ClientTerminate(w)

SigintTerminate ==
    /\ Running("sigintTerminate")
    /\ Becomes(SigintTerminateHandler(Popped))

\* The engine has shut down: a promise of client.terminate() is fulfilled.
EngineTerminated ==
    /\ Idle
    /\ proc.terminating > 0
    /\ Becomes(Enqueue([World EXCEPT !.proc.terminate = "done",
                                     !.proc.terminating = @ - 1],
                       Task("sigintExit", 0, NoHandle, <<>>)))

\* .then(() => process.exit(0))
SigintExit ==
    /\ Running("sigintExit")
    /\ Becomes(ProcessExit(Popped, "exit0", "sigint", 0))

\* =========================================================== specification
Next ==
    \/ \E c \in Conns, url \in Urls : Connection(c, url)
    \/ \E c \in Conns, ok \in BOOLEAN : EngineAddChain(c, ok)
    \/ AsyncResume
    \/ ChainCatch
    \/ \E c \in Conns, data \in Payloads, isBinary \in BOOLEAN :
         Message(c, data, isBinary)
    \/ MessageThen
    \/ MessageCatch
    \/ \E c \in Conns : Close(c)
    \/ CloseThen
    \/ \E h \in HandleIds : EngineResponse(h)
    \/ LoopResume
    \/ LoopError
    \/ \E ok \in BOOLEAN : EngineDefaultChain(ok)
    \/ DefaultCatch
    \/ Sigint
    \/ SigintRemove
    \/ SigintTerminate
    \/ EngineTerminated
    \/ SigintExit

Spec == Init /\ [][Next]_vars

\* ------------------------------------------------- further specifications
\* The same handlers under other bounds.  SpecRelay lets the engine produce
\* MaxRelayed responses and leaves the signal out; SpecProcess delivers
\* MaxSignals signals and leaves the traffic out; SpecLive is one connection
\* under the event loop's scheduling: a queued promise reaction always runs.

\* As EngineResponse, up to MaxRelayed responses.
EngineRelayResponse(h) ==
    /\ Idle
    /\ handles[h].pendingNext
    /\ budget.responses < MaxRelayed
    /\ Becomes(Enqueue(
         [World EXCEPT !.handles[h].pendingNext = FALSE,
                       !.handles[h].produced = @ + 1,
                       !.budget.responses = @ + 1],
         Task("loopResume", handles[h].owner, h, <<handles[h].produced + 1>>)))

NextRelay ==
    \/ \E c \in Conns, url \in Urls : Connection(c, url)
    \/ \E c \in Conns, ok \in BOOLEAN : EngineAddChain(c, ok)
    \/ AsyncResume
    \/ ChainCatch
    \/ \E c \in Conns, data \in Payloads, isBinary \in BOOLEAN :
         Message(c, data, isBinary)
    \/ MessageThen
    \/ MessageCatch
    \/ \E c \in Conns : Close(c)
    \/ CloseThen
    \/ \E h \in HandleIds : EngineRelayResponse(h)
    \/ LoopResume
    \/ LoopError
    \/ \E ok \in BOOLEAN : EngineDefaultChain(ok)
    \/ DefaultCatch

SpecRelay == Init /\ [][NextRelay]_vars

\* As Sigint, up to MaxSignals deliveries.
SigintRepeated ==
    /\ Idle
    /\ proc.sigints < MaxSignals
    /\ Becomes(SigintHandler(World))

NextProcess ==
    \/ \E c \in Conns, url \in Urls : Connection(c, url)
    \/ \E c \in Conns, ok \in BOOLEAN : EngineAddChain(c, ok)
    \/ AsyncResume
    \/ ChainCatch
    \/ \E c \in Conns : Close(c)
    \/ CloseThen
    \/ LoopError
    \/ \E ok \in BOOLEAN : EngineDefaultChain(ok)
    \/ DefaultCatch
    \/ SigintRepeated
    \/ SigintRemove
    \/ SigintTerminate
    \/ EngineTerminated
    \/ SigintExit

SpecProcess == Init /\ [][NextProcess]_vars

\* The promise reactions: each is a job of the microtask queue, which the
\* event loop drains before it takes the next event.
Reactions ==
    \/ AsyncResume
    \/ ChainCatch
    \/ MessageThen
    \/ MessageCatch
    \/ CloseThen
    \/ LoopResume
    \/ LoopError
    \/ DefaultCatch
    \/ SigintRemove
    \/ SigintTerminate
    \/ SigintExit

NextLive ==
    \/ \E url \in Urls : Connection(1, url)
    \/ \E ok \in BOOLEAN : EngineAddChain(1, ok)
    \/ \E data \in Payloads, isBinary \in BOOLEAN : Message(1, data, isBinary)
    \/ Close(1)
    \/ \E h \in HandleIds : EngineResponse(h)
    \/ \E ok \in BOOLEAN : EngineDefaultChain(ok)
    \/ Sigint
    \/ EngineTerminated
    \/ Reactions

SpecLive == Init /\ [][NextLive]_vars /\ WF_vars(Reactions)

\* ================================================================== claims
Established(c) == conn[c].chain = "session"
Failed(c) == conn[c].chain = "undefined"
Accepted(c) == conn[c].readyState # "NONE"
Quiet == microtasks = <<>>
Key(c) == Substring1(conn[c].url)
InRegistry(c) == Key(c) \in DOMAIN chainSpecsById
OwnedBy(c) == {h \in HandleIds : handles[h].created /\ handles[h].owner = c}
Range(f) == {f[i] : i \in DOMAIN f}
EngineCalls(c) ==
    Len(conn[c].addCalls) + Len(conn[c].sendCalls) + Len(conn[c].nextCalls)
        + Len(conn[c].removeCalls)
IsText(frame) == ~frame.isBinary
TextReceived(c) ==
    LET texts == SelectSeq(conn[c].received, IsText)
    IN [i \in 1..Len(texts) |-> texts[i].data]
Forwarded(c) ==
    [i \in 1..Len(conn[c].sendCalls) |-> Utf8Encode(conn[c].sendCalls[i].message)]

\* C1: a connection whose path is not the id of a loaded registry entry makes
\* no engine call (addChain, sendJsonRpc, nextJsonRpcResponse, remove), at
\* connect time or later, and is closed at once.
C1_UnknownIdNeverReachesEngine ==
    \A c \in Conns :
        (Accepted(c) /\ ~InRegistry(c)) =>
            (EngineCalls(c) = 0 /\ conn[c].readyState \in {"CLOSING", "CLOSED"})

\* C2: for an id of the registry, an established session has a relay handle,
\* and it has a parachain handle (RelayWithParachain) iff the entry has a
\* relay-chain reference; otherwise the relay handle is its only handle
\* (RelayOnly).
C2_SessionVariant ==
    \A c \in Conns :
        (Established(c) /\ InRegistry(c)) =>
            LET entry == chainSpecsById[Key(c)]
                cn == conn[c]
            IN /\ cn.relay \in OwnedBy(c)
               /\ (cn.para # NoHandle) <=> Truthy(entry.relayChain)
               /\ cn.para # NoHandle => cn.para \in OwnedBy(c) \ {cn.relay}
               /\ OwnedBy(c) = {cn.relay, cn.para} \ {NoHandle}
               /\ cn.para = NoHandle =>
                    /\ handles[cn.relay].chainSpec = entry.chainSpec
                    /\ ~handles[cn.relay].disableJsonRpc
               /\ cn.para # NoHandle =>
                    /\ handles[cn.para].chainSpec = entry.chainSpec
                    /\ handles[cn.relay].disableJsonRpc

C2_BothVariantsEstablished ==
    \E c, d \in Conns :
        /\ Established(c) /\ InRegistry(c) /\ conn[c].para = NoHandle
        /\ Established(d) /\ InRegistry(d) /\ conn[d].para # NoHandle

\* C3: for an entry with a relay-chain reference, the first addChain is for
\* the referenced relay's spec with JSON-RPC disabled; the parachain's
\* addChain is issued only after that call returned a handle, with
\* potentialRelayChains holding exactly that handle; no addChain at all is
\* issued when the relay id is missing, and none follows a rejected relay add.
C3_RelayBeforeParachain ==
    \A c \in Conns :
        (Accepted(c) /\ InRegistry(c) /\ Truthy(chainSpecsById[Key(c)].relayChain)) =>
            LET entry == chainSpecsById[Key(c)]
                calls == conn[c].addCalls
            IN /\ Len(calls) <= 2
               /\ entry.relayChain \notin DOMAIN chainSpecsById => calls = <<>>
               /\ Len(calls) >= 1 =>
                    /\ entry.relayChain \in DOMAIN chainSpecsById
                    /\ calls[1].chainSpec = chainSpecsById[entry.relayChain].chainSpec
                    /\ calls[1].disableJsonRpc
                    /\ calls[1].potentialRelayChains = <<>>
               /\ Len(calls) = 2 =>
                    /\ calls[1].result \in OwnedBy(c)
                    /\ calls[2].chainSpec = entry.chainSpec
                    /\ ~calls[2].disableJsonRpc
                    /\ calls[2].potentialRelayChains = <<calls[1].result>>

C3_ParachainAddIssued ==
    \E c \in Conns :
        /\ InRegistry(c)
        /\ Len(conn[c].addCalls) = 2
        /\ conn[c].addCalls[2].potentialRelayChains = <<conn[c].relay>>
        /\ conn[c].addCalls[2].result = 0

\* C4: every sendJsonRpc a connection makes is on the parachain handle of its
\* own RelayWithParachain session, or else on the relay handle of its own
\* RelayOnly session, never on the JSON-RPC-disabled relay handle, another
\* connection's handle or the default chain's; and once the handlers have
\* run, the text frames received on an established session have been passed
\* to it byte for byte, each once, in order.
C4_RoutedToTargetVerbatim ==
    \A c \in Conns :
        /\ \A i \in DOMAIN conn[c].sendCalls :
              LET h == conn[c].sendCalls[i].h
              IN /\ Established(c)
                 /\ h \in OwnedBy(c)
                 /\ h # proc.defaultHandle
                 /\ h = IF conn[c].para # NoHandle THEN conn[c].para ELSE conn[c].relay
                 /\ ~handles[h].disableJsonRpc
        /\ (Established(c) /\ Quiet) => Forwarded(c) = TextReceived(c)

C4_ParachainMessageForwarded ==
    \E c \in Conns :
        /\ Established(c) /\ Quiet
        /\ conn[c].para # NoHandle
        /\ \E i \in DOMAIN conn[c].received : conn[c].received[i].data = <<195, 169>>
        /\ conn[c].sendCalls # <<>>

C6_CloseReleasesOwnHandlesOnly ==
    /\ \A c \in Conns :
          /\ Range(conn[c].removeCalls) \subseteq OwnedBy(c)
          /\ (Established(c) /\ conn[c].readyState = "CLOSED" /\ Quiet)
                => Range(conn[c].removeCalls) = OwnedBy(c)
    /\ \A h \in HandleIds :
          handles[h].removes > 0 =>
              IF handles[h].owner = 0
              THEN proc.sigRemoves > 0
              ELSE /\ conn[handles[h].owner].readyState = "CLOSED"
                   /\ h \in Range(conn[handles[h].owner].removeCalls)

C6_SameChainIdIndependentHandles ==
    \E c, d \in Conns :
        /\ c # d
        /\ conn[c].url = conn[d].url
        /\ Established(c) /\ conn[c].readyState = "CLOSED"
        /\ Range(conn[c].removeCalls) = OwnedBy(c)
        /\ Established(d) /\ conn[d].readyState = "OPEN"
        /\ \A h \in OwnedBy(d) : ~handles[h].removed
        /\ proc.defaultHandle \in HandleIds /\ ~handles[proc.defaultHandle].removed

C8_NoUseAfterRemove ==
    \A h \in HandleIds :
        handles[h].owner \in Conns => ~handles[h].usedAfterRemove

C8_RemovedAfterTraffic ==
    \E c \in Conns :
        /\ Established(c) /\ conn[c].readyState = "CLOSED" /\ Quiet
        /\ \A h \in OwnedBy(c) : handles[h].removed
        /\ conn[c].sendCalls # <<>>
        /\ conn[c].frames # <<>>
        /\ Len(conn[c].nextCalls) >= 2
        /\ conn[c].loop = "exited"

\* C9: when the engine rejected an addChain of a connection, the connection
\* is closed with code 1011 and, once its socket has closed and its handlers
\* have run, every handle the engine returned for it has been released.
C9_FailureReleasesEveryHandle ==
    \A c \in Conns :
        (conn[c].failure = "addChain" /\ Failed(c)) =>
            /\ InternalError \in Range(conn[c].closeCalls)
            /\ (conn[c].readyState = "CLOSED" /\ Quiet)
                  => \A h \in OwnedBy(c) : handles[h].removed

\* C10: the process never exits because of a connection whose chain
\* establishment failed.
C10_FailureConfinedToConnection ==
    \A c \in Conns :
        conn[c].failure # "none" =>
            ~(proc.exited # "no" /\ proc.exitCause = "jsonRpcRequest"
                /\ proc.exitConn = c)

\* C11: every frame sent to a connection is a response of the JSON-RPC-enabled
\* handle of its own session (the parachain handle in RelayWithParachain, the
\* relay handle in RelayOnly), the k-th frame is the k-th response the engine
\* produced on that handle, and while the session is established with its
\* socket open every response produced has been sent once the handlers have
\* run; nextJsonRpcResponse is requested on that handle only, never on the
\* JSON-RPC-disabled relay handle.
C11_ResponsesRelayedInOrderToOwner ==
    \A c \in Conns :
        LET cn == conn[c]
        IN /\ \A i \in DOMAIN cn.frames :
                /\ cn.frames[i].h = Target(cn)
                /\ cn.frames[i].h \in OwnedBy(c)
                /\ ~handles[cn.frames[i].h].disableJsonRpc
                /\ cn.frames[i].m = <<i>>
           /\ \A i \in DOMAIN cn.nextCalls :
                /\ cn.nextCalls[i] = Target(cn)
                /\ cn.nextCalls[i] \in OwnedBy(c)
                /\ ~handles[cn.nextCalls[i]].disableJsonRpc
           /\ (Established(c) /\ cn.readyState = "OPEN" /\ Quiet) =>
                Len(cn.frames) = handles[Target(cn)].produced

C11_TwoParachainResponsesRelayed ==
    \E c, d \in Conns :
        /\ c # d
        /\ Established(c) /\ conn[c].para # NoHandle
        /\ conn[c].frames = <<[h |-> conn[c].para, m |-> <<1>>],
                              [h |-> conn[c].para, m |-> <<2>>]>>
        /\ Established(d) /\ conn[d].readyState = "OPEN"
        /\ conn[d].frames = <<>>

\* A step accepts connection c.
Accepts(c) == conn[c].readyState = "NONE" /\ conn'[c].readyState # "NONE"

\* A step issues a per-connection addChain.
IssuesAddChain(c) == Len(conn'[c].addCalls) > Len(conn[c].addCalls)

\* C12 as stated: the default chain's addChain has been fulfilled by the time
\* the listener accepts a connection or a per-connection addChain is issued.
C12_AcceptsOnlyAfterDefaultChainAdded ==
    [][\A c \in Conns :
          (Accepts(c) \/ IssuesAddChain(c)) => proc.defaultChain = "fulfilled"]_vars

\* C12, amended: the default chain's addChain is issued once, before the
\* listener exists; connections may be accepted while it is pending; once it
\* has failed the only step left is the exit with code 1, so that no
\* connection is accepted and no per-connection addChain is issued after the
\* failure.
C12_DefaultChainAddedOnceFailureFatal ==
    [][/\ proc'.defaultAdds = 1
       /\ proc.defaultHandle = -1 =>
            /\ conn' = conn
            /\ handles' = handles
            /\ proc'.exited = "exit1"
            /\ proc'.exitCause = "defaultChain"]_vars

C12_AcceptedWhilePendingThenFatal ==
    /\ proc.exited = "exit1"
    /\ proc.exitCause = "defaultChain"
    /\ \E c \in Conns : Accepted(c) /\ conn[c].addCalls # <<>>

\* C13: after an interrupt signal, client.terminate() is called only once
\* remove has been called on the default chain's handle (as many removes as
\* terminates, at least), and the process exits with code 0 only by the
\* signal's chain, after a terminate() whose promise was fulfilled.
C13_RemoveThenTerminateThenExit ==
    /\ proc.terminateCalls <= proc.sigRemoves
    /\ proc.sigRemoves <= proc.sigints
    /\ proc.sigRemoves > 0 =>
         /\ proc.defaultHandle = HandleId(0, 1)
         /\ handles[proc.defaultHandle].removed
         /\ handles[proc.defaultHandle].removes = proc.sigRemoves
    /\ proc.terminate # "no" <=> proc.terminateCalls > 0
    /\ proc.terminating <= proc.terminateCalls
    /\ proc.exited = "exit0" =>
         /\ proc.exitCause = "sigint"
         /\ proc.terminate = "done"
         /\ proc.terminateCalls > 0
         /\ proc.terminating < proc.terminateCalls
         /\ proc.sigRemoves > 0

C13_ExitedAfterSignal ==
    /\ proc.exited = "exit0"
    /\ proc.sigints = 1
    /\ proc.sigRemoves = 1
    /\ proc.terminateCalls = 1
    /\ handles[HandleId(0, 1)].removed
    /\ \E c \in Conns : Established(c)

\* C14: once an interrupt signal has been received, no step accepts a
\* connection and no step issues a per-connection addChain.
C14_NoConnectionAfterSignal ==
    [][\A c \in Conns :
          (Accepts(c) \/ IssuesAddChain(c)) => proc.sigints = 0]_vars

\* C15 as stated: on a RelayWithParachain session, remove is not called on
\* the relay handle before it was called on the parachain handle.
C15_ParachainReleasedBeforeRelay ==
    \A c \in Conns :
        \A i \in DOMAIN conn[c].removeCalls :
            (conn[c].para # NoHandle /\ conn[c].removeCalls[i] = conn[c].relay) =>
                \E j \in 1..(i - 1) : conn[c].removeCalls[j] = conn[c].para

\* C15, amended: the close handler of a RelayWithParachain session calls
\* remove on the relay handle first and on the parachain handle second, both
\* in the same reaction; a RelayOnly session removes its relay handle.
C15_RelayReleasedBeforeParachain ==
    \A c \in Conns :
        LET cn == conn[c]
        IN cn.removeCalls # <<>> =>
             /\ Established(c)
             /\ cn.removeCalls =
                    IF cn.para # NoHandle THEN <<cn.relay, cn.para>> ELSE <<cn.relay>>

C15_ParachainSessionReleased ==
    \E c \in Conns :
        /\ conn[c].para # NoHandle
        /\ conn[c].readyState = "CLOSED"
        /\ conn[c].removeCalls = <<conn[c].relay, conn[c].para>>
        /\ handles[conn[c].relay].removed /\ handles[conn[c].para].removed

\* The text frames connection c received while its `chain` was in state st.
TextReceivedDuring(c, st) ==
    {i \in DOMAIN conn[c].received : conn[c].received[i].during = st}

IsPrefix(s, t) == Len(s) <= Len(t) /\ \A i \in DOMAIN s : s[i] = t[i]

\* C16 as stated: a text frame received while the session is Resolving or
\* after it failed is never passed to sendJsonRpc, so that a connection makes
\* no more sendJsonRpc calls than it received text frames on its established
\* session; and the error of such a frame does not end the process.
C16_EarlyMessagesDropped ==
    \A c \in Conns :
        /\ Len(conn[c].sendCalls) <= Cardinality(TextReceivedDuring(c, "session"))
        /\ (proc.exitCause = "jsonRpcRequest" /\ proc.exitConn = c) => Established(c)

\* C16, amended: a text frame received while the session is Resolving is kept
\* until establishment completes.  No sendJsonRpc is made before that; if
\* establishment succeeds the kept frames are passed to sendJsonRpc, in the
\* order received and ahead of later frames; if it fails, no frame of the
\* connection is ever passed to sendJsonRpc, and a text frame received before
\* or after the failure ends the process.
C16_EarlyMessagesKeptUntilEstablished ==
    \A c \in Conns :
        /\ ~Established(c) => conn[c].sendCalls = <<>>
        /\ IsPrefix(Forwarded(c), TextReceived(c))
        /\ (Established(c) /\ Quiet) => Forwarded(c) = TextReceived(c)
        /\ (Failed(c) /\ Quiet /\ TextReceived(c) # <<>>) => proc.exited # "no"
        /\ (proc.exitCause = "jsonRpcRequest" /\ proc.exitConn = c /\ Failed(c)) =>
              /\ proc.exited = "exit1"
              /\ TextReceived(c) # <<>>

C16_EarlyMessageForwardedAndEarlyMessageFatal ==
    \E c, d \in Conns :
        /\ Established(c)
        /\ TextReceivedDuring(c, "pending") # {}
        /\ conn[c].sendCalls # <<>>
        /\ Forwarded(c) = TextReceived(c)
        /\ Failed(d)
        /\ TextReceivedDuring(d, "pending") # {}
        /\ proc.exited = "exit1" /\ proc.exitCause = "jsonRpcRequest"
        /\ proc.exitConn = d

\* C17: a relay task that is running on a closed connection ends (its loop
\* leaves through catch, or the process exits); a task that has ended stays
\* ended, sends no frame and asks for no response afterwards, and leaves no
\* nextJsonRpcResponse pending on its handle.
C17_RelayTaskEndsAfterClose ==
    /\ \A c \in Conns :
         (conn[c].readyState = "CLOSED" /\ conn[c].loop = "running")
             ~> (conn[c].loop = "exited" \/ proc.exited # "no")
    /\ [][\A c \in Conns :
            conn[c].loop = "exited" =>
                /\ conn'[c].loop = "exited"
                /\ conn'[c].frames = conn[c].frames
                /\ conn'[c].nextCalls = conn[c].nextCalls]_vars
    /\ [](\A c \in Conns :
            conn[c].loop = "exited" => ~handles[Target(conn[c])].pendingNext)

C17_RelayTaskEndedByClose ==
    \E c \in Conns :
        /\ conn[c].readyState = "CLOSED"
        /\ conn[c].loop = "exited"
        /\ conn[c].para # NoHandle
        /\ conn[c].removeCalls # <<>>
        /\ conn[c].frames # <<>>
        /\ proc.exited = "no"

\* C18: once a connection's socket has closed, the engine has answered every
\* addChain of the connection and its handlers have run, remove has
\* been called on every handle the engine returned for it, whether the
\* session was established or failed and whether the socket closed before or
\* after the handles were returned.
C18_SessionNeverOutlivesConnection ==
    \A c \in Conns :
        ( /\ conn[c].readyState = "CLOSED"
          /\ conn[c].pc \in {"none", "done"}
          /\ conn[c].reactions = <<>>
          /\ Quiet
          /\ proc.exited = "no" )
        => \A h \in OwnedBy(c) : handles[h].removes > 0

\* C19: the messages a connection passes to sendJsonRpc are, in order, the
\* first text frames it received, those received before establishment
\* included, all on the session's target handle; and when remove is called
\* for the connection every text frame it received has been passed on.
C19_ForwardedInReceiveOrderBeforeRemove ==
    \A c \in Conns :
        /\ IsPrefix(Forwarded(c), TextReceived(c))
        /\ \A i \in DOMAIN conn[c].sendCalls :
              conn[c].sendCalls[i].h = Target(conn[c])
        /\ conn[c].removeCalls # <<>> =>
              /\ Forwarded(c) = TextReceived(c)
              /\ \A i \in DOMAIN conn[c].sendCalls :
                    ~handles[conn[c].sendCalls[i].h].usedAfterRemove

C19_EarlyMessagesForwardedThenReleased ==
    \E c \in Conns :
        /\ Cardinality(TextReceivedDuring(c, "pending")) = 2
        /\ TextReceived(c) = << <<195, 169>>, <<97>> >>
        /\ Forwarded(c) = TextReceived(c)
        /\ conn[c].readyState = "CLOSED"
        /\ conn[c].removeCalls # <<>>

\* C20: remove on the default chain's handle and client.terminate() are each
\* called at most once, however many interrupt signals are delivered.
C20_DefaultChainReleasedOnce ==
    /\ proc.sigRemoves <= 1
    /\ proc.terminateCalls <= 1
    /\ handles[HandleId(0, 1)].removes <= 1

====
